---- MODULE Spec2Model ----
(***************************************************************************)
(* A model of the NeTS network library: the Network container             *)
(* (src/edge.ts, class Network, lines 851-1694), the Cycle accumulator    *)
(* (src/edge.ts, class Cycle, lines 1696-1817), the structural algorithms *)
(* and the complete-network generator (src/algorithms.ts).                *)
(*                                                                         *)
(* A JavaScript Map is modelled as a sequence in insertion order; a        *)
(* vertex entry is [key, id, weight] (the Map key and the Vertex object),  *)
(* an edge entry is [id, from, to, weight] (the Map key and the Edge).     *)
(***************************************************************************)
EXTENDS Integers, Sequences, FiniteSets, TLC

VARIABLES
    net,   \* the Network under test
    cyc,   \* the Cycle under test
    last,  \* the last call made: operation, arguments, error raised, value returned
    alg    \* the position of a running algorithm (quadruplets) and its accumulator

vars == <<net, cyc, last, alg>>

-----------------------------------------------------------------------------
(* Bounds of the model *)

\* vertex ids are 1..MaxId
MaxId == 3
\* ids a caller supplies for an edge are 1..MaxEdgeIdIn
MaxEdgeIdIn == 2
\* calls of addEdge without an id are made while free_eid < MaxFreeEid
MaxFreeEid == 2
\* vertex_limit given to the constructor
MaxVertexLimit == 3
\* edge_limit given to the constructor
MaxEdgeLimit == 2
\* calls of super.addEdge without an id are made on a Cycle while free_eid < MaxCycleEid
MaxCycleEid == 3
\* the networks given to core and triplets have vertices 1..MaxAlgId
MaxAlgId == 5
\* and at most MaxAlgEdges edges
MaxAlgEdges == 5
\* edge lists of at most MaxAlgShuffled pairs come in every order, longer ones
\* in lexicographic order
MaxAlgShuffled == 3
\* a vertex without edges is added to the networks of at most MaxAlgIsolated edges
MaxAlgIsolated == 1
\* core(k) is called with k in 1..MaxK
MaxK == 3
\* the weights a client gives to a vertex: 1..MaxWeight
MaxWeight == 2
\* quadruplets is called on the complete networks of MinComplete..MaxComplete vertices
MinComplete == 4
MaxComplete == 5
\* of the free ids the random draw of newEID can give, those below Len(edges) + MaxDraw are drawn
MaxDraw == 3
\* addVertexList and addVertexMap take at most MaxList vertices
MaxList == 1
\* addEdgeList takes at most MaxEdgeList pairs
MaxEdgeList == 2

(* Program constants *)

\* args.id left undefined
NoId == -1
DefaultVertexLimit == 1500
DefaultEdgeLimit == 2500
DefaultWeight == 1
\* the first value of the edge id counter, the id of a Cycle's first edge
InitialEid == 0

Ids == 1..MaxId

-----------------------------------------------------------------------------
(* JavaScript helpers *)

RECURSIVE DecStr(_)
\* String(n) for a non-negative integer, as a sequence of digits
DecStr(n) == IF n < 10 THEN <<n>> ELSE Append(DecStr(n \div 10), n % 10)

RECURSIVE StrLess(_, _)
\* s < t for strings (code-unit order)
StrLess(s, t) ==
    IF t = <<>> THEN FALSE
    ELSE IF s = <<>> THEN TRUE
    ELSE IF Head(s) # Head(t) THEN Head(s) < Head(t)
    ELSE StrLess(Tail(s), Tail(t))

\* [a, b].sort(): the default comparator compares the elements as strings
JsSortPair(a, b) == IF StrLess(DecStr(b), DecStr(a)) THEN <<b, a>> ELSE <<a, b>>

RECURSIVE JsInsert(_, _)
JsInsert(x, s) ==
    IF s = <<>> THEN <<x>>
    ELSE IF StrLess(DecStr(x), DecStr(Head(s))) THEN <<x>> \o s
    ELSE <<Head(s)>> \o JsInsert(x, Tail(s))

RECURSIVE JsSort(_)
\* Array.prototype.sort() without a comparator, on an array of ids
JsSort(s) == IF s = <<>> THEN <<>> ELSE JsInsert(Head(s), JsSort(Tail(s)))

Range(s) == {s[i] : i \in DOMAIN s}

-----------------------------------------------------------------------------
(* Vertex, Edge *)

Vertex(key, id, weight) == [key |-> key, id |-> id, weight |-> weight]

Edge(id, from, to, weight) == [id |-> id, from |-> from, to |-> to, weight |-> weight]

EdgeHasVertex(e, vertex_id) == e.from = vertex_id \/ e.to = vertex_id

pairVertex(e, vertex_id) == IF vertex_id = e.to THEN e.from ELSE e.to

\* the arguments of an addEdge call; do_force and weight already defaulted
EdgeArgs(from, to, id, do_force) ==
    [from |-> from, to |-> to, id |-> id, weight |-> DefaultWeight, do_force |-> do_force]

\* Edge.args: a fresh argument object without an id
ArgsOf(e) == [from |-> e.from, to |-> e.to, id |-> NoId, weight |-> e.weight, do_force |-> TRUE]

-----------------------------------------------------------------------------
(* Network *)

NewNetwork(is_directed, vertex_limit, edge_limit) ==
    [ vertices     |-> <<>>,
      edges        |-> <<>>,
      is_directed  |-> is_directed,
      vertex_limit |-> vertex_limit,
      edge_limit   |-> edge_limit,
      free_eid     |-> InitialEid ]

Res(n, err) == [net |-> n, err |-> err]

VertexKeys(n) == {n.vertices[i].key : i \in DOMAIN n.vertices}

hasVertex(n, id) == id \in VertexKeys(n)

edgesHas(n, id) == \E i \in DOMAIN n.edges : n.edges[i].id = id

checkEdgeIsSame(edge_a, edge_b, is_directed) ==
    \/ edge_a.from = edge_b.from /\ edge_a.to = edge_b.to
    \/ edge_a.to = edge_b.from /\ edge_a.from = edge_b.to /\ ~is_directed

\* hasEdge(from, to, is_directed = false)
hasEdge(n, from, to, is_directed) ==
    \E i \in DOMAIN n.edges :
        checkEdgeIsSame(n.edges[i], [from |-> from, to |-> to], is_directed)

\* Map.set on the vertex map: an existing key keeps its place
SetVertex(vs, v) ==
    IF \E i \in DOMAIN vs : vs[i].key = v.key
    THEN [i \in DOMAIN vs |-> IF vs[i].key = v.key THEN v ELSE vs[i]]
    ELSE Append(vs, v)

addVertex(n, id, weight) ==
    IF Len(n.vertices) >= n.vertex_limit THEN Res(n, "VERTICE_LIMIT")
    ELSE IF hasVertex(n, id) THEN Res(n, "EXISTING_VERTICE")
    ELSE Res([n EXCEPT !.vertices = Append(@, Vertex(id, id, weight))], "none")

RECURSIVE addVertexListFrom(_, _, _)
addVertexListFrom(n, vertex_list, index) ==
    IF index > Len(vertex_list) THEN n
    ELSE addVertexListFrom(
            [n EXCEPT !.vertices =
                SetVertex(@, Vertex(index - 1, vertex_list[index].id, vertex_list[index].weight))],
            vertex_list, index + 1)

\* addVertexList: the key of each vertex is its index in the list
addVertexList(n, vertex_list) == addVertexListFrom(n, vertex_list, 1)

RECURSIVE addVertexMap(_, _)
\* addVertexMap: vertex_map is the sequence of the entries of the given Map
addVertexMap(n, vertex_map) ==
    IF vertex_map = <<>> THEN n
    ELSE addVertexMap([n EXCEPT !.vertices = SetVertex(@, Head(vertex_map))],
                      Tail(vertex_map))

\* removeVertex without the cascade over the edges
removeVertexKeepsEdges(n, id) ==
    IF ~hasVertex(n, id) THEN Res(n, "INEXISTENT_VERTICE")
    ELSE LET NotId(v) == v.key # id
         IN Res([n EXCEPT !.vertices = SelectSeq(@, NotId)], "none")

\* removeVertex with a cascade over the edges that leave id only
removeVertexOutgoing(n, id) ==
    IF ~hasVertex(n, id) THEN [net |-> n, err |-> "INEXISTENT_VERTICE", vertex |-> id]
    ELSE LET NotId(v) == v.key # id
             NotFrom(e) == e.from # id
         IN Res([n EXCEPT !.vertices = SelectSeq(@, NotId),
                          !.edges = SelectSeq(@, NotFrom)], "none")

\* the object thrown for an absent id carries it: { message, vertex: id }
removeVertex(n, id) ==
    IF ~hasVertex(n, id) THEN [net |-> n, err |-> "INEXISTENT_VERTICE", vertex |-> id]
    ELSE LET NotId(v) == v.key # id
             NotIncident(e) == ~(e.from = id \/ e.to = id)
         IN Res([n EXCEPT !.vertices = SelectSeq(@, NotId),
                          !.edges = SelectSeq(@, NotIncident)], "none")

\* removeEdge with the endpoints compared as in an undirected network
removeEdgeEitherWay(n, from, to) ==
    LET Other(e) == ~checkEdgeIsSame(e, [from |-> from, to |-> to], FALSE)
    IN [n EXCEPT !.edges = SelectSeq(@, Other)]

removeEdge(n, from, to) ==
    LET Other(e) == ~checkEdgeIsSame(e, [from |-> from, to |-> to], n.is_directed)
    IN [n EXCEPT !.edges = SelectSeq(@, Other)]

\* the ids in use among those Math.floor(Math.random() * edge_limit) can give
UsedEIDs(n) == {n.edges[i].id : i \in DOMAIN n.edges} \cap 0..(n.edge_limit - 1)

\* the values at which the retry loop of newEID can stop: the free ids below
\* edge_limit, of which the model draws those below Len(edges) + MaxDraw
RandomEIDs(n) ==
    LET top == IF n.edge_limit < Len(n.edges) + MaxDraw
               THEN n.edge_limit ELSE Len(n.edges) + MaxDraw
    IN {r \in 0..(top - 1) : ~edgesHas(n, r)}

\* newEID never returns: the counter's value is taken and so is every id the
\* random draw can produce
newEIDHangs(n) == edgesHas(n, n.free_eid) /\ Cardinality(UsedEIDs(n)) = n.edge_limit

\* the ids newEID can return
newEIDs(n) == IF edgesHas(n, n.free_eid) THEN RandomEIDs(n) ELSE {n.free_eid}

\* what an addEdge call ends with: the network, the error thrown ("none": it
\* returned), args as the call left it and the vertex the thrown object names
\* (NoId: it names none)
AddRes(m, err, args) == [net |-> m, err |-> err, args |-> args, vertex |-> NoId]

\* throw { message: ERROR.INEXISTENT_VERTICE, vertex }
throwInexistent(m, args, vertex) ==
    [AddRes(m, "INEXISTENT_VERTICE", args) EXCEPT !.vertex = vertex]

\* the throw for a missing args.to, naming args.from instead
throwInexistentFrom(m, args) == throwInexistent(m, args, args.from)

\* throw { message: ERROR.INEXISTENT_VERTICE, vertex: args.to }
throwInexistentTo(m, args) == throwInexistent(m, args, args.to)

\* addEdge from the hasEdge test on, without the test
insertEdgeAlways(m, args) ==
    [net |-> [m EXCEPT !.edges = Append(@, Edge(args.id, args.from, args.to, args.weight))],
     err |-> "none", args |-> args, vertex |-> NoId]

\* this.edges.set(args.id, new Edge(args)), pair being [args.from, args.to]
\* after the sort of an undirected network
setEdge(m, args, pair) ==
    AddRes([m EXCEPT !.edges = Append(@, Edge(args.id, pair[1], pair[2], args.weight))],
           "none", [args EXCEPT !.from = pair[1], !.to = pair[2]])

\* addEdge from the hasEdge test on: both endpoints are vertices of m
insertEdge(m, args) ==
    IF hasEdge(m, args.from, args.to, FALSE) THEN AddRes(m, "none", args)
    ELSE setEdge(m, args, IF m.is_directed THEN <<args.from, args.to>>
                          ELSE JsSortPair(args.from, args.to))

\* if (!this.vertices.has(args.from)) this.addVertex({ id: args.from })
forceFrom(n, args) ==
    IF hasVertex(n, args.from) THEN Res(n, "none") ELSE addVertex(n, args.from, DefaultWeight)

\* if (!this.vertices.has(args.to)) this.addVertex({ id: args.to }), r being
\* what the line before ended with
forceTo(r, args) ==
    IF r.err # "none" \/ hasVertex(r.net, args.to) THEN r
    ELSE addVertex(r.net, args.to, DefaultWeight)

\* addEdge after the endpoints were created, r being what their creation ended with
afterForce(r, args) ==
    IF r.err # "none" THEN AddRes(r.net, r.err, args) ELSE insertEdge(r.net, args)

\* the part of addEdge after the id is known (args.id is set)
addEdgeWithId(n, args) ==
    IF edgesHas(n, args.id) THEN AddRes(n, "EXISTING_EDGE", args)
    ELSE IF args.from = args.to THEN AddRes(n, "SELF_LOOP", args)
    ELSE IF Len(n.edges) >= n.edge_limit THEN AddRes(n, "EDGE_LIMIT", args)
    ELSE IF ~args.do_force /\ ~hasVertex(n, args.from)
         THEN throwInexistent(n, args, args.from)
    ELSE IF ~args.do_force /\ ~hasVertex(n, args.to)
         THEN throwInexistentTo(n, args)
    ELSE IF ~args.do_force THEN insertEdge(n, args)
    ELSE afterForce(forceTo(forceFrom(n, args), args), args)

\* addEdge; eid is the id newEID returns when args has none, and newEID has
\* then advanced free_eid
addEdge(n, args, eid) ==
    addEdgeWithId(IF args.id # NoId THEN n ELSE [n EXCEPT !.free_eid = @ + 1],
                  IF args.id # NoId THEN args ELSE [args EXCEPT !.id = eid])

\* addEdge without an id on a network whose ids all came from its counter
addEdgeAuto(n, args) == addEdge(n, args, n.free_eid)


\* the outcomes of addEdge that the random draws of newEID allow; a call in
\* which newEID never returns is the outcome "HANG"
addEdgeOutcomes(n, args) ==
    IF args.id = NoId /\ newEIDHangs(n)
    THEN {AddRes([n EXCEPT !.free_eid = @ + 1], "HANG", args)}
    ELSE {addEdge(n, args, eid) : eid \in (IF args.id = NoId THEN newEIDs(n) ELSE {args.id})}

RECURSIVE addEdgeListOutcomes(_, _)
\* addEdgeList: addEdge({from, to}) for each pair in turn, up to the first error
addEdgeListOutcomes(n, edge_list) ==
    IF edge_list = <<>> THEN {Res(n, "none")}
    ELSE UNION { IF r.err # "none" THEN {Res(r.net, r.err)}
                 ELSE addEdgeListOutcomes(r.net, Tail(edge_list))
                 : r \in addEdgeOutcomes(n, EdgeArgs(Head(edge_list)[1], Head(edge_list)[2], NoId, TRUE)) }

-----------------------------------------------------------------------------
(* Cycle (extends Network) *)

\* args.edge left undefined
Undefined == [id |-> NoId, undefined |-> TRUE]

IsUndefined(edge) == "undefined" \in DOMAIN edge

CycleRes(c, err, ret) == [cyc |-> c, err |-> err, ret |-> ret]

\* new Cycle({is_directed, initial_edge, loop_vertex}); loop_vertex = NoId when
\* it is not given. The result of super.addEdge is kept in err: the constructor
\* throws what it throws.
\* the constructor after super.addEdge(initial_edge), which ended with r
cycleAround(r, is_directed, loop_vertex) ==
    [ cyc  |-> [ vertices     |-> r.net.vertices,
                 edges        |-> r.net.edges,
                 is_directed  |-> is_directed,
                 vertex_limit |-> r.net.vertex_limit,
                 edge_limit   |-> r.net.edge_limit,
                 free_eid     |-> r.net.free_eid,
                 loop_vertex  |-> IF ~is_directed /\ loop_vertex # NoId
                                     /\ hasVertex(r.net, loop_vertex)
                                  THEN loop_vertex ELSE r.args.from,
                 tip_vertex   |-> IF ~is_directed /\ loop_vertex # NoId
                                     /\ hasVertex(r.net, loop_vertex) /\ r.err = "none"
                                  THEN pairVertex(r.net.edges[1], loop_vertex)
                                  ELSE r.args.to,
                 is_closed    |-> FALSE ],
      err  |-> r.err,
      ret  |-> FALSE,
      args |-> r.args ]

NewCycle(is_directed, initial_edge, loop_vertex) ==
    cycleAround(addEdgeAuto(NewNetwork(is_directed, DefaultVertexLimit, DefaultEdgeLimit),
                            initial_edge),
                is_directed, loop_vertex)

canAdd(c, edge) ==
    LET edge_has_tip ==
            \/ edge.from = c.tip_vertex /\ ~hasVertex(c, edge.to)
            \/ ~c.is_directed /\ edge.to = c.tip_vertex /\ ~hasVertex(c, edge.from)
    IN ~c.is_closed /\ edge_has_tip

\* a close test that asks only for the tip, not for loop_vertex
canCloseWithTipOnly(c, edge) ==
    ~c.is_closed /\ (edge.from = c.tip_vertex \/ (~c.is_directed /\ edge.to = c.tip_vertex))

canCloseWith(c, edge) ==
    LET edge_has_tip_and_loop_vertex ==
            \/ edge.from = c.tip_vertex /\ edge.to = c.loop_vertex
            \/ ~c.is_directed /\ edge.to = c.tip_vertex /\ edge.from = c.loop_vertex
    IN ~c.is_closed /\ edge_has_tip_and_loop_vertex

\* the tip after a successful addEdge as src/cycle.ts sets it: edge.to, and then
\* edge.from whenever the cycle is undirected
tipAfterAddLegacy(c, edge) ==
    IF ~c.is_directed THEN edge.from ELSE edge.to

\* the tip after a successful addEdge; edge is the argument as super.addEdge left it
tipAfterAdd(c, edge) ==
    IF ~c.is_directed /\ c.tip_vertex = edge.to THEN edge.from ELSE edge.to

\* what Cycle.addEdge does once super.addEdge(edge) has ended with outcome r
cycleAddEdgeAfter(c, r) ==
    IF r.err # "none" THEN CycleRes(r.net, r.err, FALSE)
    ELSE CycleRes([r.net EXCEPT !.tip_vertex = tipAfterAdd(c, r.args)], "none", TRUE)

\* Cycle.addEdge: the outcomes the random draws of newEID allow
cycleAddEdgeOutcomes(c, edge) ==
    IF ~IsUndefined(edge) /\ canAdd(c, edge)
    THEN {cycleAddEdgeAfter(c, r) : r \in addEdgeOutcomes(c, edge)}
    ELSE {CycleRes(c, "none", FALSE)}

\* what Cycle.close does once super.addEdge(edge) has ended with outcome r
closeAfter(c, r) ==
    IF r.err # "none" THEN CycleRes(r.net, r.err, FALSE)
    ELSE CycleRes([r.net EXCEPT !.is_closed = TRUE, !.tip_vertex = c.loop_vertex],
                  "none", TRUE)

\* Cycle.close: the outcomes the random draws of newEID allow
closeOutcomes(c, edge) ==
    IF ~IsUndefined(edge) /\ canCloseWith(c, edge)
    THEN {closeAfter(c, r) : r \in addEdgeOutcomes(c, edge)}
    ELSE {CycleRes(c, "none", FALSE)}

RECURSIVE cycleAddEdgeListOutcomes(_, _)
\* the inherited addEdgeList on a Cycle: this.addEdge is Cycle.addEdge, its
\* boolean is dropped, an error ends the loop
cycleAddEdgeListOutcomes(c, edge_list) ==
    IF edge_list = <<>> THEN {CycleRes(c, "none", FALSE)}
    ELSE UNION { IF r.err # "none" THEN {CycleRes(r.cyc, r.err, FALSE)}
                 ELSE cycleAddEdgeListOutcomes(r.cyc, Tail(edge_list))
                 : r \in cycleAddEdgeOutcomes(c,
                       EdgeArgs(Head(edge_list)[1], Head(edge_list)[2], NoId, TRUE)) }

------------------------------------------------------------------------------
(* The standalone Cycle of src/cycle.ts. It extends the Network of          *)
(* ./network.ts, which is one of the two Network classes of the repository: *)
(* the later one sorts the endpoints of an undirected edge in place before  *)
(* it stores the edge, the earlier one stores and leaves the edge as given. *)
(* A cycle keeps which of the two it extends in sorts.                      *)

\* super.addEdge(edge) on cycle c: the outcomes of Network.addEdge, with the
\* endpoints of the stored edge and of edge as given when the Network does not
\* sort
legacySuper(c, edge) ==
    LET AsGiven(e) == [e EXCEPT !.from = edge.from, !.to = edge.to]
    IN {IF c.sorts \/ r.err # "none" \/ Len(r.net.edges) = Len(c.edges) THEN r
        ELSE [r EXCEPT !.args = AsGiven(r.args),
                       !.net.edges[Len(r.net.edges)] =
                           AsGiven(r.net.edges[Len(r.net.edges)])]
        : r \in addEdgeOutcomes(c, edge)}

\* new Cycle({is_directed, initial_edge}): loop_vertex and tip_vertex are read
\* from initial_edge as super.addEdge left it
NewLegacyCycle(is_directed, initial_edge, sorts) ==
    {CycleRes([r.net EXCEPT !.loop_vertex = r.args.from, !.tip_vertex = r.args.to],
              r.err, FALSE)
     : r \in legacySuper(
                 NewNetwork(is_directed, DefaultVertexLimit, DefaultEdgeLimit) @@
                 [loop_vertex |-> NoId, tip_vertex |-> NoId, is_closed |-> FALSE,
                  sorts |-> sorts],
                 initial_edge)}

\* this.tip_vertex = edge.to; if (!this.is_directed && this.tip_vertex === edge.to)
\* this.tip_vertex = edge.from; edge is the argument as super.addEdge left it
legacyTip(c, edge) ==
    LET tip_vertex == edge.to
    IN IF ~c.is_directed /\ tip_vertex = edge.to THEN edge.from ELSE tip_vertex

\* Cycle.addEdge of src/cycle.ts
legacyAddEdgeOutcomes(c, edge) ==
    IF /\ ~c.is_closed
       /\ \/ edge.from = c.tip_vertex /\ ~hasVertex(c, edge.to)
          \/ ~c.is_directed /\ edge.to = c.tip_vertex /\ ~hasVertex(c, edge.from)
    THEN {IF r.err # "none" THEN CycleRes(r.net, r.err, FALSE)
          ELSE CycleRes([r.net EXCEPT !.tip_vertex = legacyTip(c, r.args)], "none", TRUE)
          : r \in legacySuper(c, edge)}
    ELSE {CycleRes(c, "none", FALSE)}

\* Cycle.close of src/cycle.ts
legacyCloseOutcomes(c, edge) ==
    IF /\ ~c.is_closed
       /\ \/ edge.from = c.tip_vertex /\ edge.to = c.loop_vertex
          \/ ~c.is_directed /\ edge.to = c.tip_vertex /\ edge.from = c.loop_vertex
    THEN {IF r.err # "none" THEN CycleRes(r.net, r.err, FALSE)
          ELSE CycleRes([r.net EXCEPT !.is_closed = TRUE, !.tip_vertex = c.loop_vertex],
                        "none", TRUE)
          : r \in legacySuper(c, edge)}
    ELSE {CycleRes(c, "none", FALSE)}

-----------------------------------------------------------------------------
(* Network: neighbourhoods, copy, k-core, triplets *)

neighbors(n, id) ==
    LET With(e) == e.from = id \/ e.to = id
        incident == SelectSeq(n.edges, With)
    IN [i \in DOMAIN incident |->
            IF incident[i].from = id THEN incident[i].to ELSE incident[i].from]

degree(n, id) ==
    Cardinality({i \in DOMAIN n.edges : n.edges[i].from = id \/ n.edges[i].to = id})

\* edgeBetween(from, to): the first edge between the two, or Undefined
edgeBetween(n, from, to) ==
    LET Same(e) == checkEdgeIsSame(e, [from |-> from, to |-> to], n.is_directed)
        found == SelectSeq(n.edges, Same)
    IN IF found = <<>> THEN Undefined ELSE found[1]

edgesFrom(n, vertex_id) ==
    LET From(e) == e.from = vertex_id IN SelectSeq(n.edges, From)

edgesWith(n, vertex_id) ==
    LET With(e) == e.from = vertex_id \/ e.to = vertex_id IN SelectSeq(n.edges, With)

RECURSIVE addEdgeMap(_, _)
RECURSIVE addEdgeMapAfter(_, _)
\* addEdgeMap after one addEdge, which ended with r: an error ends the forEach
addEdgeMapAfter(r, edge_map) ==
    IF r.err # "none" THEN Res(r.net, r.err) ELSE addEdgeMap(r.net, edge_map)

\* addEdgeMap on a network whose ids all came from its counter: addEdge(edge.args)
\* for each edge of the map in turn, up to the first error
addEdgeMap(n, edge_map) ==
    IF edge_map = <<>> THEN Res(n, "none")
    ELSE addEdgeMapAfter(addEdgeAuto(n, ArgsOf(Head(edge_map))), Tail(edge_map))

\* copy after addEdgeMap, which ended with r: network_copy.addVertexMap(this.vertices)
copyVertices(r, vertex_map) ==
    IF r.err # "none" THEN r ELSE Res(addVertexMap(r.net, vertex_map), "none")

\* copy: a new Network with the same arguments, the edges added again (the
\* vertices come in the order the edges name them), then the vertex map
copy(n) ==
    copyVertices(addEdgeMap(NewNetwork(n.is_directed, n.vertex_limit, n.edge_limit), n.edges),
                 n.vertices)

\* the keys under which the copy holds the very Vertex object of n:
\* addVertexMap stores the object it is given (this.vertices.set(id, vertex)),
\* so every entry of this.vertices is one object in two maps
copyShared(n) == VertexKeys(n)

\* vertex.weight = weight on the Vertex object that n.vertices holds under key
setWeight(n, key, weight) ==
    [n EXCEPT !.vertices =
        [i \in DOMAIN @ |-> IF @[i].key = key THEN [@[i] EXCEPT !.weight = weight] ELSE @[i]]]

\* the weight of the Vertex object that n.vertices holds under key
weightOf(n, key) == n.vertices[CHOOSE i \in DOMAIN n.vertices : n.vertices[i].key = key].weight

\* the network `this` after an algorithm ran on the network work, which holds
\* under the keys of shared the very Vertex objects of `this`: the Maps of
\* `this` are written through `this` alone, and an object in both networks has
\* one weight
receiverAfter(n, work, shared) ==
    [n EXCEPT !.vertices =
        [i \in DOMAIN n.vertices |->
            IF n.vertices[i].key \in shared /\ hasVertex(work, n.vertices[i].key)
            THEN [n.vertices[i] EXCEPT !.weight = weightOf(work, n.vertices[i].key)]
            ELSE n.vertices[i]]]

\* complement: the first addEdge of a pair, with the edge test made as for a
\* directed network
complementForthDirected(n, c, id_a, id_b) ==
    IF ~hasEdge(n, id_a, id_b, TRUE)
    THEN addEdgeAuto(c, EdgeArgs(id_a, id_b, NoId, TRUE))
    ELSE Res(c, "none")

\* complement: if (!this.hasEdge(id_a, id_b)) complement_network.addEdge({from: id_a, to: id_b})
complementForth(n, c, id_a, id_b) ==
    IF ~hasEdge(n, id_a, id_b, FALSE)
    THEN addEdgeAuto(c, EdgeArgs(id_a, id_b, NoId, TRUE))
    ELSE Res(c, "none")

\* complement: the second addEdge of a pair, r being what the first ended with
complementBack(n, r, id_a, id_b) ==
    IF r.err # "none" THEN Res(r.net, r.err)
    ELSE IF r.net.is_directed /\ ~hasEdge(n, id_b, id_a, FALSE)
         THEN addEdgeAuto(r.net, EdgeArgs(id_b, id_a, NoId, TRUE))
         ELSE Res(r.net, "none")

\* complement: the body of the inner forEach for vertex_a and vertex_b, r being
\* what the iterations before ended with
complementPair(n, r, id_a, id_b) ==
    IF r.err # "none" THEN Res(r.net, r.err)
    ELSE IF id_a = id_b THEN Res(r.net, "none")
    ELSE complementBack(n, complementForth(n, r.net, id_a, id_b), id_a, id_b)

RECURSIVE complementInner(_, _, _, _)
\* complement: the inner forEach from the b-th vertex on
complementInner(n, r, a, b) ==
    IF b > Len(n.vertices) THEN r
    ELSE complementInner(n, complementPair(n, r, n.vertices[a].id, n.vertices[b].id), a, b + 1)

RECURSIVE complementOuter(_, _, _)
\* complement: the outer forEach from the a-th vertex on
complementOuter(n, r, a) ==
    IF a > Len(n.vertices) THEN r
    ELSE complementOuter(n, complementInner(n, r, a, 1), a + 1)

\* complement: a new Network of the same directedness and the default limits
complement(n) ==
    complementOuter(n, Res(NewNetwork(n.is_directed, DefaultVertexLimit, DefaultEdgeLimit),
                           "none"), 1)

RECURSIVE egoTouch(_, _, _, _)
\* ego: the first forEach from the i-th edge on, r being what the iterations
\* before ended with: addEdge({from, to}) for the edges that have id as an endpoint
egoTouch(n, r, id, i) ==
    IF r.err # "none" \/ i > Len(n.edges) THEN Res(r.net, r.err)
    ELSE egoTouch(n,
                  IF n.edges[i].from = id \/ n.edges[i].to = id
                  THEN addEdgeAuto(r.net, EdgeArgs(n.edges[i].from, n.edges[i].to, NoId, TRUE))
                  ELSE r,
                  id, i + 1)

RECURSIVE egoClose(_, _, _)
\* ego: the second forEach from the i-th edge on: addEdge({from, to}) for the
\* edges whose endpoints are both vertices of ego_network
egoClose(n, r, i) ==
    IF r.err # "none" \/ i > Len(n.edges) THEN Res(r.net, r.err)
    ELSE egoClose(n,
                  IF hasVertex(r.net, n.edges[i].from) /\ hasVertex(r.net, n.edges[i].to)
                  THEN addEdgeAuto(r.net, EdgeArgs(n.edges[i].from, n.edges[i].to, NoId, TRUE))
                  ELSE r,
                  i + 1)

\* ego: a new Network(this.args) filled by the two passes over this.edges
ego(n, id) ==
    egoClose(n, egoTouch(n, Res(NewNetwork(n.is_directed, n.vertex_limit, n.edge_limit), "none"),
                         id, 1), 1)

max_edges(n) == (Len(n.vertices) * (Len(n.vertices) - 1)) \div 2

\* a number that clustering or density returns, as the quotient num / den of two
\* integers;
\* 0 / 0 is NaN
Quotient(err, num, den) == [err |-> err, num |-> num, den |-> den]

\* get density(): this.edges.size / this.max_edges
density(n) == Quotient("none", Len(n.edges), max_edges(n))

\* clustering after centerless_ego.removeVertex(id), which ended with r
clusteringRatio(r, is_directed) ==
    IF r.err # "none" THEN Quotient(r.err, 0, 1)
    ELSE Quotient("none", (IF is_directed THEN 2 ELSE 1) * Len(r.net.edges), max_edges(r.net))

\* clustering after this.ego(id), which ended with r
clusteringOf(r, is_directed, id) ==
    IF r.err # "none" THEN Quotient(r.err, 0, 1)
    ELSE IF Len(r.net.vertices) <= 1 THEN Quotient("none", 0, 1)
    ELSE clusteringRatio(removeVertex(r.net, id), is_directed)

clustering(n, id) == clusteringOf(ego(n, id), n.is_directed, id)

\* averageClustering after the map over vertex_list gave terms: the sum of the
\* terms, kept term by term, over vertices.size; err is the first error thrown
averageOf(terms, size) ==
    [err  |-> IF \A i \in DOMAIN terms : terms[i].err = "none" THEN "none"
              ELSE terms[CHOOSE i \in DOMAIN terms :
                           /\ terms[i].err # "none"
                           /\ \A j \in 1..(i - 1) : terms[j].err = "none"].err,
      sum  |-> terms,
      size |-> size]

averageClustering(n) ==
    IF Len(n.vertices) <= 1 THEN averageOf(<<>>, 1)
    ELSE averageOf([i \in DOMAIN n.vertices |-> clustering(n, n.vertices[i].id)],
                   Len(n.vertices))

\* core working on the network it is called on: const k_decomposition = this
coreInPlace(n, r) == r.net

\* `this` after core(k) returned or threw with r: k_decomposition is
\* this.copy(), a network with Maps of its own that holds the Vertex objects
\* of `this`, and every removeVertex is made on k_decomposition
coreReceiver(n, r) == receiverAfter(n, r.net, copyShared(n))

RECURSIVE coreScanExact(_, _, _)
\* the for loop of core removing the vertices whose degree is k
coreScanExact(d, k, vertex_counter) ==
    IF vertex_counter >= Len(d.vertices) THEN Res(d, "none")
    ELSE IF degree(d, d.vertices[vertex_counter + 1].id) = k
         THEN (IF removeVertex(d, d.vertices[vertex_counter + 1].id).err # "none"
               THEN removeVertex(d, d.vertices[vertex_counter + 1].id)
               ELSE coreScanExact(removeVertex(d, d.vertices[vertex_counter + 1].id).net, k, 1))
         ELSE coreScanExact(d, k, vertex_counter + 1)

RECURSIVE coreScan(_, _, _)
RECURSIVE coreRemoved(_, _)
\* the for loop of core after removeVertex, which ended with r: the body sets
\* vertex_counter = 0 and the loop's increment makes it 1
coreRemoved(r, k) ==
    IF r.err # "none" THEN r ELSE coreScan(r.net, k, 1)

\* the for loop of core: vertex_counter is the index about to be examined
coreScan(d, k, vertex_counter) ==
    IF vertex_counter >= Len(d.vertices) THEN Res(d, "none")
    ELSE IF degree(d, d.vertices[vertex_counter + 1].id) < k
         THEN coreRemoved(removeVertex(d, d.vertices[vertex_counter + 1].id), k)
         ELSE coreScan(d, k, vertex_counter + 1)

RECURSIVE coreWhile(_, _)
RECURSIVE coreScanned(_, _)
\* the while loop of core after the for loop, which ended with r: k--
coreScanned(r, k) ==
    IF r.err # "none" THEN r ELSE coreWhile(r.net, k - 1)

\* the while loop of core: one scan for k, then for k - 1, down to 1
coreWhile(d, k) ==
    IF k > 0 /\ Len(d.vertices) > 0 THEN coreScanned(coreScan(d, k, 0), k)
    ELSE Res(d, "none")

\* core after this.copy(), which ended with r
coreOf(r, k) ==
    IF r.err # "none" THEN r ELSE coreWhile(r.net, k)

core(n, k) == coreOf(copy(n), k)

isSameCycle(arr1, arr2) ==
    Len(arr1) = Len(arr2) /\ \A i \in DOMAIN arr1 : arr1[i] \in Range(arr2)

listHasCycle(cycle_arr, cycle) ==
    \E i \in DOMAIN cycle_arr : isSameCycle(cycle, cycle_arr[i])

\* the test and the push of triplets, triplet being the sorted array
tripletsPush(k2, this_is_directed, to, id, triplet_list, unsorted, triplet) ==
    IF \/ isSameCycle(unsorted, triplet)
       \/ (this_is_directed /\ ~listHasCycle(triplet_list, triplet))
    THEN IF hasEdge(k2, id, to, TRUE) /\ ~this_is_directed
         THEN Append(triplet_list, triplet)
         ELSE IF hasEdge(k2, id, to, FALSE)
              THEN Append(triplet_list, triplet)
              ELSE triplet_list
    ELSE triplet_list

\* the body of the inner forEach of triplets for the neighbour id of edge.from
tripletsVisit(k2, this_is_directed, edge, id, triplet_list) ==
    IF EdgeHasVertex(edge, id) THEN triplet_list
    ELSE tripletsPush(k2, this_is_directed, edge.to, id, triplet_list,
                      <<id, edge.from, edge.to>>, JsSort(<<id, edge.from, edge.to>>))

RECURSIVE tripletsScan(_, _, _, _, _)
\* the two nested forEach of triplets: edge i of k2, neighbour j of its from
tripletsScan(k2, this_is_directed, i, j, triplet_list) ==
    IF i > Len(k2.edges) THEN triplet_list
    ELSE IF j > Len(neighbors(k2, k2.edges[i].from))
         THEN tripletsScan(k2, this_is_directed, i + 1, 1, triplet_list)
         ELSE tripletsScan(k2, this_is_directed, i, j + 1,
                  tripletsVisit(k2, this_is_directed, k2.edges[i],
                                neighbors(k2, k2.edges[i].from)[j], triplet_list))

\* triplets after this.core(2), which ended with k2: [ret |-> the list, err]
tripletsOf(k2, this_is_directed) ==
    IF k2.err # "none" THEN [ret |-> <<>>, err |-> k2.err]
    ELSE [ret |-> tripletsScan(k2.net, this_is_directed, 1, 1, <<>>), err |-> "none"]

triplets(n) == tripletsOf(core(n, 2), n.is_directed)

-----------------------------------------------------------------------------
(* genCompleteNetwork and quadruplets *)

RECURSIVE genCompleteEdges(_, _, _)
\* complete_net.vertices.forEach: an edge from every other vertex to vertex
genCompleteEdges(n, vertex, index) ==
    IF index > Len(n.vertices) THEN n
    ELSE IF n.vertices[index].id # vertex
         THEN genCompleteEdges(
                  addEdgeAuto(n, EdgeArgs(n.vertices[index].id, vertex, NoId, TRUE)).net,
                  vertex, index + 1)
         ELSE genCompleteEdges(n, vertex, index + 1)

RECURSIVE genCompleteFrom(_, _, _)
genCompleteFrom(n, size, vertex) ==
    IF vertex >= size THEN n
    ELSE genCompleteFrom(
             genCompleteEdges(addVertex(n, vertex, DefaultWeight).net, vertex, 1),
             size, vertex + 1)

\* genCompleteNetwork(size): vertices 0 .. size - 1
genCompleteNetwork(size) ==
    genCompleteFrom(NewNetwork(FALSE, size, (size * (size - 1)) \div 2), size, 0)

\* Cycle.isSameAs: every edge of this has its endpoints in some edge of cycle
isSameAs(this, cycle) ==
    IF this.is_directed # cycle.is_directed THEN FALSE
    ELSE \A i \in DOMAIN this.edges : \E j \in DOMAIN cycle.edges :
            \/ /\ cycle.edges[j].from = this.edges[i].from
               /\ cycle.edges[j].to = this.edges[i].to
            \/ /\ ~this.is_directed
               /\ cycle.edges[j].from = this.edges[i].to
               /\ cycle.edges[j].to = this.edges[i].from

\* a Cycle without the ids of its edges, which newEID may have drawn at
\* random and which nothing reads once the cycle is built
Anonymous(c) ==
    [c EXCEPT !.edges = [i \in DOMAIN @ |-> [@[i] EXCEPT !.id = NoId]], !.free_eid = NoId]

\* quadruplets, for edge1 of k2: loop_vertex, pair_vertex and the neighbours
\* of pair_vertex, after the exchange made when the network is undirected
quadEnds(k2, edge1) ==
    LET loop_vertex == edge1.from
        pair_vertex == pairVertex(edge1, loop_vertex)
        pair_vertex_neighbors == neighbors(k2, pair_vertex)
        loop_vertex_neighbors == neighbors(k2, loop_vertex)
    IN IF ~k2.is_directed /\ Len(pair_vertex_neighbors) > Len(loop_vertex_neighbors)
       THEN [loop_vertex |-> pair_vertex, pair_vertex |-> loop_vertex,
             pair_vertex_neighbors |-> loop_vertex_neighbors]
       ELSE [loop_vertex |-> loop_vertex, pair_vertex |-> pair_vertex,
             pair_vertex_neighbors |-> pair_vertex_neighbors]

parallelEdges(k2, vertex) ==
    IF k2.is_directed THEN edgesFrom(k2, vertex) ELSE edgesWith(k2, vertex)

\* edge?.args
OptArgs(edge) == IF IsUndefined(edge) THEN Undefined ELSE ArgsOf(edge)

\* the body of the innermost forEach of quadruplets, on the new Cycle c: the
\* cycles it can end with, each with closed = whether the three calls returned true
quadTry(k2, c, loop_vertex, vertex, p_edge) ==
    UNION { IF r1.err # "none" \/ ~r1.ret THEN {[cyc |-> r1.cyc, err |-> r1.err, closed |-> FALSE]}
            ELSE UNION {
              IF r2.err # "none" \/ ~r2.ret
              THEN {[cyc |-> r2.cyc, err |-> r2.err, closed |-> FALSE]}
              ELSE {[cyc |-> r3.cyc, err |-> r3.err, closed |-> r3.ret] :
                      r3 \in closeOutcomes(r2.cyc,
                                OptArgs(edgeBetween(k2, r2.cyc.tip_vertex, loop_vertex)))}
              : r2 \in cycleAddEdgeOutcomes(r1.cyc, ArgsOf(p_edge)) }
            : r1 \in cycleAddEdgeOutcomes(c, OptArgs(edgeBetween(k2, c.tip_vertex, vertex))) }

\* a push without the isSameAs test
pushAlways(c4, cycle) == Append(c4, cycle)

\* if (!c4.some((c) => c.isSameAs(cycle))) c4.push(cycle)
pushIfNew(c4, cycle) ==
    IF \E i \in DOMAIN c4 : isSameAs(c4[i], cycle) THEN c4 ELSE Append(c4, cycle)

-----------------------------------------------------------------------------
(* The calls a client makes on a Network *)

\* the last call: its name, the error it raised ("none": it returned) and,
\* for the calls of a Cycle, the boolean it returned
Call(op, err, ret) == [op |-> op, err |-> err, ret |-> ret]

NoCycle == [is_closed |-> FALSE]
Idle == [pc |-> "idle"]

\* a call that never returns leaves the client inside it
Hung == last.err = "HANG"

\* lists of at most k elements of S
Lists(S, k) == UNION {[1..j -> S] : j \in 0..k}

\* the pairs given to addEdgeList: [a, b] with a <= b
ListPairs == {p \in Ids \X Ids : p[1] <= p[2]}

EdgeArgsSet ==
    {EdgeArgs(from, to, id, do_force) :
        from \in Ids, to \in Ids, id \in {NoId} \cup 1..MaxEdgeIdIn, do_force \in BOOLEAN}

\* the argument lists of addVertexList: [{id: 1}, {id: 2}, ...]
VertexLists == {[i \in 1..k |-> [id |-> i, weight |-> DefaultWeight]] : k \in 0..MaxList}

\* the entries of a vertex Map of another network: each vertex under its own id
VertexMaps == {m \in Lists({Vertex(i, i, DefaultWeight) : i \in Ids}, MaxList) :
                  \A a, b \in DOMAIN m : a # b => m[a].key # m[b].key}

\* the calls of addEdge without an id are counted by free_eid
CanAuto(n, k) == n.free_eid + k <= MaxFreeEid

Init ==
    /\ net \in {NewNetwork(d, MaxVertexLimit, MaxEdgeLimit) : d \in BOOLEAN}
    /\ cyc = NoCycle
    /\ last = Call("new", "none", FALSE)
    /\ alg = Idle

AddEdge ==
    /\ ~Hung
    /\ \E args \in EdgeArgsSet :
         /\ args.id = NoId => CanAuto(net, 1)
         /\ \E r \in addEdgeOutcomes(net, args) :
              /\ net' = r.net
              /\ last' = Call("addEdge", r.err, FALSE)
    /\ UNCHANGED <<cyc, alg>>

AddEdgeList ==
    /\ ~Hung
    /\ \E edge_list \in Lists(ListPairs, MaxEdgeList) :
         /\ CanAuto(net, Len(edge_list))
         /\ \E r \in addEdgeListOutcomes(net, edge_list) :
              /\ net' = r.net
              /\ last' = Call("addEdgeList", r.err, FALSE)
    /\ UNCHANGED <<cyc, alg>>

RemoveEdge ==
    /\ ~Hung
    /\ \E from \in Ids, to \in Ids :
         /\ net' = removeEdge(net, from, to)
         /\ last' = Call("removeEdge", "none", FALSE)
    /\ UNCHANGED <<cyc, alg>>

AddVertex ==
    /\ ~Hung
    /\ \E id \in Ids :
         LET r == addVertex(net, id, DefaultWeight) IN
         /\ net' = r.net
         /\ last' = Call("addVertex", r.err, FALSE)
    /\ UNCHANGED <<cyc, alg>>

AddVertexList ==
    /\ ~Hung
    /\ \E vertex_list \in VertexLists :
         /\ net' = addVertexList(net, vertex_list)
         /\ last' = Call("addVertexList", "none", FALSE)
    /\ UNCHANGED <<cyc, alg>>

AddVertexMap ==
    /\ ~Hung
    /\ \E vertex_map \in VertexMaps :
         /\ net' = addVertexMap(net, vertex_map)
         /\ last' = Call("addVertexMap", "none", FALSE)
    /\ UNCHANGED <<cyc, alg>>

RemoveVertex ==
    /\ ~Hung
    /\ \E id \in VertexKeys(net) \cup Ids :
         LET r == removeVertex(net, id) IN
         /\ net' = r.net
         /\ last' = Call("removeVertex", r.err, FALSE)
    /\ UNCHANGED <<cyc, alg>>

Next ==
    \/ AddEdge
    \/ AddEdgeList
    \/ RemoveEdge
    \/ AddVertex
    \/ AddVertexList
    \/ AddVertexMap
    \/ RemoveVertex

Spec == Init /\ [][Next]_vars

-----------------------------------------------------------------------------
(* The calls a client makes on a Cycle: its own addEdge and close, and the  *)
(* mutators it inherits from Network                                        *)

NoNetwork == NewNetwork(FALSE, 0, 0)

\* the edges given to Cycle.addEdge and Cycle.close: without an id or with the
\* id of the constructor's edge, and undefined
CycleEdgeInputs ==
    {EdgeArgs(from, to, id, do_force) :
        from \in Ids, to \in Ids, id \in {NoId, InitialEid}, do_force \in BOOLEAN}
    \cup {Undefined}

\* the calls of super.addEdge without an id are counted by free_eid
CycleCanAuto(c, k) == c.free_eid + k <= MaxCycleEid

NeedsEid(edge) == ~IsUndefined(edge) /\ edge.id = NoId

InitCycle ==
    /\ net = NoNetwork
    /\ \E is_directed \in BOOLEAN, from \in Ids, to \in Ids, loop_vertex \in Ids \cup {NoId} :
         LET r == NewCycle(is_directed, EdgeArgs(from, to, NoId, TRUE), loop_vertex)
         IN r.err = "none" /\ cyc = r.cyc
    /\ last = Call("new Cycle", "none", FALSE)
    /\ alg = Idle

CycleAddEdge ==
    /\ \E edge \in CycleEdgeInputs :
         /\ NeedsEid(edge) => CycleCanAuto(cyc, 1)
         /\ \E r \in cycleAddEdgeOutcomes(cyc, edge) :
              /\ cyc' = r.cyc
              /\ last' = Call("Cycle.addEdge", r.err, r.ret)
    /\ UNCHANGED <<net, alg>>

CycleClose ==
    /\ \E edge \in CycleEdgeInputs :
         /\ NeedsEid(edge) => CycleCanAuto(cyc, 1)
         /\ \E r \in closeOutcomes(cyc, edge) :
              /\ cyc' = r.cyc
              /\ last' = Call("Cycle.close", r.err, r.ret)
    /\ UNCHANGED <<net, alg>>

CycleAddEdgeList ==
    /\ \E edge_list \in Lists(ListPairs, MaxEdgeList) :
         /\ CycleCanAuto(cyc, Len(edge_list))
         /\ \E r \in cycleAddEdgeListOutcomes(cyc, edge_list) :
              /\ cyc' = r.cyc
              /\ last' = Call("addEdgeList", r.err, FALSE)
    /\ UNCHANGED <<net, alg>>

CycleRemoveEdge ==
    /\ \E from \in Ids, to \in Ids :
         /\ cyc' = removeEdge(cyc, from, to)
         /\ last' = Call("removeEdge", "none", FALSE)
    /\ UNCHANGED <<net, alg>>

CycleAddVertex ==
    /\ \E id \in Ids :
         LET r == addVertex(cyc, id, DefaultWeight) IN
         /\ cyc' = r.net
         /\ last' = Call("addVertex", r.err, FALSE)
    /\ UNCHANGED <<net, alg>>

CycleRemoveVertex ==
    /\ \E id \in VertexKeys(cyc) \cup Ids :
         LET r == removeVertex(cyc, id) IN
         /\ cyc' = r.net
         /\ last' = Call("removeVertex", r.err, FALSE)
    /\ UNCHANGED <<net, alg>>

NextCycle ==
    \/ CycleAddEdge
    \/ CycleClose
    \/ CycleAddEdgeList
    \/ CycleRemoveEdge
    \/ CycleAddVertex
    \/ CycleRemoveVertex

SpecCycle == InitCycle /\ [][NextCycle]_vars

-----------------------------------------------------------------------------
(* core and triplets applied to the networks a client can build *)

\* the pairs given to addEdgeList to build the network: [a, b] with a < b
AlgPairs == {p \in (1..MaxAlgId) \X (1..MaxAlgId) : p[1] < p[2]}

RECURSIVE DistinctLists(_, _)
\* lists of at most k distinct elements of S
DistinctLists(S, k) ==
    IF k = 0 THEN {<<>>}
    ELSE LET shorter == DistinctLists(S, k - 1)
         IN shorter \cup UNION {{Append(l, x) : x \in S \ Range(l)} : l \in shorter}

\* p comes before q in lexicographic order
PairLess(p, q) == p[1] < q[1] \/ (p[1] = q[1] /\ p[2] < q[2])

RECURSIVE LexList(_)
\* the pairs of S as a list in lexicographic order
LexList(S) ==
    IF S = {} THEN <<>>
    ELSE LET first == CHOOSE p \in S : \A q \in S : p = q \/ PairLess(p, q)
         IN <<first>> \o LexList(S \ {first})

\* the lists given to addEdgeList to build the network
AlgEdgeLists ==
    DistinctLists(AlgPairs, MaxAlgShuffled)
    \cup {LexList(S) : S \in {T \in SUBSET AlgPairs :
                                Cardinality(T) > MaxAlgShuffled
                                /\ Cardinality(T) <= MaxAlgEdges}}

\* new Network({is_directed}) followed by addEdgeList(edge_list) and, when
\* extra is an id, by addVertex({id: extra})
InitAlg ==
    /\ \E is_directed \in BOOLEAN, edge_list \in AlgEdgeLists, extra \in {NoId} \cup 1..MaxAlgId :
         /\ extra # NoId => Len(edge_list) <= MaxAlgIsolated
         /\ \E r \in addEdgeListOutcomes(
                      NewNetwork(is_directed, DefaultVertexLimit, DefaultEdgeLimit), edge_list) :
            \E v \in {IF extra = NoId \/ r.err # "none" THEN r
                       ELSE addVertex(r.net, extra, DefaultWeight)} :
               v.err = "none" /\ net = v.net
    /\ cyc = NoCycle
    /\ last = Call("addEdgeList", "none", FALSE)
    /\ alg = Idle

Core ==
    /\ alg.pc = "idle"
    /\ \E k \in (-1)..MaxK : \E r \in {core(net, k)} :
         /\ alg' = [pc |-> "core", k |-> k, err |-> r.err, ret |-> r.net]
         /\ net' = coreReceiver(net, r)
    /\ UNCHANGED <<cyc, last>>

Triplets ==
    /\ alg.pc = "idle"
    /\ \E r \in {triplets(net)} :
         alg' = [pc |-> "triplets", err |-> r.err, ret |-> r.ret]
    /\ \E k2 \in {core(net, 2)} : net' = coreReceiver(net, k2)
    /\ UNCHANGED <<cyc, last>>

\* copy(): source is the network copied, ret the copy, shared the keys whose
\* Vertex object the two hold in common
Copy ==
    /\ alg.pc = "idle"
    /\ \E r \in {copy(net)} :
         alg' = [pc |-> "copy", err |-> r.err, source |-> net, ret |-> r.net,
                 shared |-> copyShared(net)]
    /\ UNCHANGED <<net, cyc, last>>

\* the two networks after copy(): the source and the copy
CopySides == {"source", "copy"}

\* the client sets the weight of a vertex of one of the two networks after
\* copy(): the write reaches every map that holds the object
SetVertexWeight ==
    /\ alg.pc = "copy" /\ alg.err = "none"
    /\ \E side \in CopySides, weight \in 1..MaxWeight :
       \E key \in VertexKeys(IF side = "source" THEN alg.source ELSE alg.ret) :
         alg' = [alg EXCEPT
                   !.pc = "mutated",
                   !.source = IF side = "source" \/ key \in alg.shared
                              THEN setWeight(@, key, weight) ELSE @,
                   !.ret = IF side = "copy" \/ key \in alg.shared
                           THEN setWeight(@, key, weight) ELSE @]
    /\ UNCHANGED <<net, cyc, last>>

\* the client calls removeVertex on one of the two networks after copy()
RemoveVertexAfterCopy ==
    /\ alg.pc = "copy" /\ alg.err = "none"
    /\ \E side \in CopySides :
       \E key \in VertexKeys(IF side = "source" THEN alg.source ELSE alg.ret) :
       \E r \in {removeVertex(IF side = "source" THEN alg.source ELSE alg.ret, key)} :
         alg' = [alg EXCEPT
                   !.pc = "mutated",
                   !.source = IF side = "source" THEN r.net ELSE @,
                   !.ret = IF side = "copy" THEN r.net ELSE @]
    /\ UNCHANGED <<net, cyc, last>>

\* complement() of the network
Complement ==
    /\ alg.pc = "idle"
    /\ \E r \in {complement(net)} :
         alg' = [pc |-> "complement", err |-> r.err, ret |-> r.net]
    /\ UNCHANGED <<net, cyc, last>>

\* complement() of the network complement() returned
ComplementAgain ==
    /\ alg.pc = "complement" /\ alg.err = "none"
    /\ \E r \in {complement(alg.ret)} :
         alg' = [pc |-> "complement2", err |-> r.err, ret |-> r.net]
    /\ UNCHANGED <<net, cyc, last>>

\* ego(id) for a vertex id of the network
Ego ==
    /\ alg.pc = "idle"
    /\ \E id \in VertexKeys(net) : \E r \in {ego(net, id)} :
         alg' = [pc |-> "ego", id |-> id, err |-> r.err, ret |-> r.net]
    /\ UNCHANGED <<net, cyc, last>>

\* clustering(id) for a vertex id of the network
Clustering ==
    /\ alg.pc = "idle"
    /\ \E id \in VertexKeys(net) : \E r \in {clustering(net, id)} :
         alg' = [pc |-> "clustering", id |-> id, err |-> r.err, ret |-> r]
    /\ UNCHANGED <<net, cyc, last>>

NextAlg ==
    \/ Core
    \/ Triplets
    \/ Copy
    \/ SetVertexWeight
    \/ RemoveVertexAfterCopy
    \/ Complement
    \/ ComplementAgain
    \/ Ego
    \/ Clustering

SpecAlg == InitAlg /\ [][NextAlg]_vars

-----------------------------------------------------------------------------
(* quadruplets on the networks genCompleteNetwork returns, one pass of the  *)
(* innermost forEach at a time                                              *)

InitComplete ==
    /\ net \in {genCompleteNetwork(size) : size \in MinComplete..MaxComplete}
    /\ cyc = NoCycle
    /\ last = Call("genCompleteNetwork", "none", FALSE)
    /\ alg = Idle

RECURSIVE quadSeek(_, _, _, _)
\* the three nested forEach of quadruplets: the first pass at or after
\* (i, j, l), a forEach over an empty list making no pass; i is past the
\* edges when there is none
quadSeek(k2, i, j, l) ==
    IF i > Len(k2.edges) THEN [i |-> i, j |-> 1, l |-> 1]
    ELSE IF j > Len(quadEnds(k2, k2.edges[i]).pair_vertex_neighbors)
    THEN quadSeek(k2, i + 1, 1, 1)
    ELSE IF l > Len(parallelEdges(k2, quadEnds(k2, k2.edges[i]).pair_vertex_neighbors[j]))
    THEN quadSeek(k2, i, j + 1, 1)
    ELSE [i |-> i, j |-> j, l |-> l]

\* quadruplets at the pass at, the return when there is none: an edge1 that
\* is new sets initial_edge to its args
quadAt(a, at, c4, initial_edge) ==
    IF at.i > Len(a.k2.edges) THEN [pc |-> "done", err |-> "none", c4 |-> c4]
    ELSE [a EXCEPT !.i = at.i, !.j = at.j, !.l = at.l, !.c4 = c4,
                   !.initial_edge = IF at.i = a.i THEN initial_edge
                                    ELSE ArgsOf(a.k2.edges[at.i])]

\* the position after the pass (i, j, l): the next parallel edge, else the next
\* neighbour, else the next edge1
quadAdvance(a, c4, initial_edge) ==
    quadAt(a, quadSeek(a.k2, a.i, a.j, a.l + 1), c4, initial_edge)

\* quadruplets up to its first pass: k2 = this.core(2)
QuadStart ==
    /\ alg.pc = "idle"
    /\ \E r \in {core(net, 2)} :
         /\ alg' = IF r.err # "none" THEN [pc |-> "done", err |-> r.err, c4 |-> <<>>]
                   ELSE quadAt([pc |-> "quadruplets", k2 |-> r.net, i |-> 0, j |-> 1, l |-> 1,
                                initial_edge |-> Undefined, c4 |-> <<>>],
                               quadSeek(r.net, 1, 1, 1), <<>>, Undefined)
         /\ net' = coreReceiver(net, r)
    /\ UNCHANGED <<cyc, last>>

\* one pass of parallel_edges.forEach: a new Cycle on initial_edge, two addEdge
\* calls and close, and the push of a cycle no kept cycle isSameAs
QuadPass ==
    /\ alg.pc = "quadruplets"
    /\ \E ends \in {quadEnds(alg.k2, alg.k2.edges[alg.i])} :
       \E vertex \in {ends.pair_vertex_neighbors[alg.j]} :
       \E p_edge \in {parallelEdges(alg.k2, vertex)[alg.l]} :
       \E new \in {NewCycle(alg.k2.is_directed, alg.initial_edge, ends.loop_vertex)} :
          IF new.err # "none"
          THEN alg' = [pc |-> "done", err |-> new.err, c4 |-> alg.c4]
          ELSE \E r \in quadTry(alg.k2, new.cyc, ends.loop_vertex, vertex, p_edge) :
                 alg' = IF r.err # "none" THEN [pc |-> "done", err |-> r.err, c4 |-> alg.c4]
                        ELSE quadAdvance(alg,
                                 IF r.closed THEN pushIfNew(alg.c4, Anonymous(r.cyc))
                                 ELSE alg.c4,
                                 new.args)
    /\ UNCHANGED <<net, cyc, last>>

NextComplete ==
    \/ QuadStart
    \/ QuadPass

SpecComplete == InitComplete /\ [][NextComplete]_vars

------------------------------------------------------------------------------
(* The structural algorithms, each called on the network of the client      *)

\* averageClustering() of the network
AverageClustering ==
    /\ alg.pc = "idle"
    /\ \E r \in {averageClustering(net)} :
         alg' = [pc |-> "averageClustering", err |-> r.err, ret |-> r]
    /\ UNCHANGED <<net, cyc, last>>

NextPure ==
    \/ Core
    \/ Ego
    \/ Complement
    \/ Clustering
    \/ AverageClustering
    \/ Triplets
    \/ QuadStart
    \/ QuadPass

SpecPure == InitAlg /\ [][NextPure]_vars

-----------------------------------------------------------------------------
(* Two Cycles, each grown by its own addEdge and close calls, and isSameAs  *)
(* called on one with the other as argument                                 *)

\* the edges given to the two cycles: no id, endpoints forced
PairEdgeInputs == {EdgeArgs(from, to, NoId, TRUE) : from \in Ids, to \in Ids}

\* the cycles new Cycle({is_directed, initial_edge}) returns
PairNewCycles ==
    {r.cyc : r \in {new \in {NewCycle(is_directed, edge, NoId) :
                                 is_directed \in BOOLEAN, edge \in PairEdgeInputs} :
                       new.err = "none"}}

\* the two cycles: a is cyc, b is alg.cycle
PairSides == {"a", "b"}

PairCycle(side) == IF side = "a" THEN cyc ELSE alg.cycle

InitPair ==
    /\ net = NoNetwork
    /\ cyc \in PairNewCycles
    /\ alg \in {[pc |-> "pair", cycle |-> b] : b \in PairNewCycles}
    /\ last = Call("new Cycle", "none", FALSE)

\* what a call on one of the two cycles, which ended with r, leaves behind
PairAfter(side, op, r) ==
    /\ cyc' = IF side = "a" THEN r.cyc ELSE cyc
    /\ alg' = IF side = "b" THEN [alg EXCEPT !.cycle = r.cyc] ELSE alg
    /\ last' = Call(op, r.err, r.ret)
    /\ UNCHANGED net

PairAddEdge ==
    \E side \in PairSides, edge \in PairEdgeInputs :
        /\ CycleCanAuto(PairCycle(side), 1)
        /\ \E r \in cycleAddEdgeOutcomes(PairCycle(side), edge) :
             PairAfter(side, "Cycle.addEdge", r)

PairClose ==
    \E side \in PairSides, edge \in PairEdgeInputs :
        /\ CycleCanAuto(PairCycle(side), 1)
        /\ \E r \in closeOutcomes(PairCycle(side), edge) :
             PairAfter(side, "Cycle.close", r)

\* a.isSameAs(b) and b.isSameAs(a)
PairIsSameAs ==
    /\ \/ last' = Call("a.isSameAs(b)", "none", isSameAs(cyc, alg.cycle))
       \/ last' = Call("b.isSameAs(a)", "none", isSameAs(alg.cycle, cyc))
    /\ UNCHANGED <<net, cyc, alg>>

NextPair ==
    \/ PairAddEdge
    \/ PairClose
    \/ PairIsSameAs

SpecPair == InitPair /\ [][NextPair]_vars

------------------------------------------------------------------------------
(* The calls a client makes on the standalone Cycle of src/cycle.ts         *)

\* the edges given to the constructor, addEdge and close: no id, endpoints
\* forced, two different endpoints
LegacyEdgeInputs ==
    {edge \in {EdgeArgs(from, to, NoId, TRUE) : from \in Ids, to \in Ids} :
        edge.from # edge.to}

InitLegacy ==
    /\ net = NoNetwork
    /\ \E is_directed \in BOOLEAN, initial_edge \in LegacyEdgeInputs, sorts \in BOOLEAN :
       \E r \in NewLegacyCycle(is_directed, initial_edge, sorts) :
          r.err = "none" /\ cyc = r.cyc
    /\ last = Call("new Cycle", "none", FALSE)
    /\ alg = Idle

LegacyAddEdge ==
    /\ CycleCanAuto(cyc, 1)
    /\ \E edge \in LegacyEdgeInputs : \E r \in legacyAddEdgeOutcomes(cyc, edge) :
         /\ cyc' = r.cyc
         /\ last' = Call("Cycle.addEdge", r.err, r.ret)
    /\ UNCHANGED <<net, alg>>

LegacyClose ==
    /\ CycleCanAuto(cyc, 1)
    /\ \E edge \in LegacyEdgeInputs : \E r \in legacyCloseOutcomes(cyc, edge) :
         /\ cyc' = r.cyc
         /\ last' = Call("Cycle.close", r.err, r.ret)
    /\ UNCHANGED <<net, alg>>

NextLegacy ==
    \/ LegacyAddEdge
    \/ LegacyClose

SpecLegacy == InitLegacy /\ [][NextLegacy]_vars

-----------------------------------------------------------------------------
(* Claims about the Cycle state machine, checked under SpecCycle *)

\* what a client can observe of a Cycle
Observable(c) == <<c.vertices, c.edges, c.loop_vertex, c.tip_vertex, c.is_closed>>

\* the endpoint of edge that is not the tip
OtherEnd(c, edge) == IF edge.from = c.tip_vertex THEN edge.to ELSE edge.from

\* edge has the tip as an endpoint (as from when directed) and its other
\* endpoint is not a vertex of the cycle
ExtendsTip(c, edge) ==
    /\ ~IsUndefined(edge)
    /\ edge.from = c.tip_vertex \/ (~c.is_directed /\ edge.to = c.tip_vertex)
    /\ OtherEnd(c, edge) \notin VertexKeys(c)

\* edge connects the tip to loop_vertex (in that direction when directed)
ConnectsTipToLoop(c, edge) ==
    /\ ~IsUndefined(edge)
    /\ \/ edge.from = c.tip_vertex /\ edge.to = c.loop_vertex
       \/ ~c.is_directed /\ edge.to = c.tip_vertex /\ edge.from = c.loop_vertex

\* the inherited Network.addEdge raises nothing for edge: its id is not in
\* use, it is no self-loop, and with do_force false both endpoints exist
NetworkAccepts(c, edge) ==
    /\ edge.id = NoId \/ ~edgesHas(c, edge.id)
    /\ edge.from # edge.to
    /\ edge.do_force \/ (edge.from \in VertexKeys(c) /\ edge.to \in VertexKeys(c))

\* some edge of c joins a and b
Joined(c, a, b) ==
    \E i \in DOMAIN c.edges : {c.edges[i].from, c.edges[i].to} = {a, b}

\* C1 (as amended): on a Cycle below its vertex and edge limits, addEdge(edge)
\* returns true iff the cycle is open, edge has the tip as an endpoint (as from
\* when directed), its other endpoint is not a vertex, and the inherited
\* Network.addEdge accepts the edge; then one edge joining the tip and the
\* other endpoint is added and the tip becomes that endpoint. When the
\* inherited addEdge does not accept such an edge its error is raised; in every
\* case but true the vertices, edges, tip_vertex and is_closed are unchanged.
C1_AddEdgeContract ==
    \A edge \in CycleEdgeInputs : \A r \in cycleAddEdgeOutcomes(cyc, edge) :
        LET fits == ~cyc.is_closed /\ ExtendsTip(cyc, edge) IN
        /\ r.ret = TRUE <=> (fits /\ NetworkAccepts(cyc, edge))
        /\ r.err # "none" <=> (fits /\ ~NetworkAccepts(cyc, edge))
        /\ r.ret = TRUE =>
             /\ Len(r.cyc.edges) = Len(cyc.edges) + 1
             /\ Joined(r.cyc, cyc.tip_vertex, OtherEnd(cyc, edge))
             /\ r.cyc.tip_vertex = OtherEnd(cyc, edge)
             /\ hasVertex(r.cyc, OtherEnd(cyc, edge))
             /\ ~r.cyc.is_closed
        /\ r.ret = FALSE => Observable(r.cyc) = Observable(cyc)

\* C1's case: an undirected cycle of two edges whose last call, addEdge,
\* returned true
C1_Witness ==
    /\ last.op = "Cycle.addEdge" /\ last.ret = TRUE
    /\ ~cyc.is_directed /\ Len(cyc.edges) = 2 /\ ~cyc.is_closed

\* C1 as the specification states it: addEdge returns true iff the cycle is
\* open and the edge extends the tip to an unvisited vertex, and otherwise
\* returns false, raises nothing and changes nothing
C1_AsStated ==
    \A edge \in CycleEdgeInputs : \A r \in cycleAddEdgeOutcomes(cyc, edge) :
        /\ r.ret = TRUE <=> (~cyc.is_closed /\ ExtendsTip(cyc, edge))
        /\ r.ret = TRUE => r.cyc.tip_vertex = OtherEnd(cyc, edge)
        /\ r.ret = FALSE => (r.err = "none" /\ Observable(r.cyc) = Observable(cyc))

\* C2 (as amended): on a Cycle below its limits, close(edge) returns true iff
\* the cycle is open, edge connects the tip to loop_vertex (from = tip and
\* to = loop when directed, either order when undirected) and the inherited
\* Network.addEdge accepts the edge; then is_closed is true and the tip is
\* loop_vertex. When the inherited addEdge does not accept such an edge its
\* error is raised; in every case but true nothing observable changes.
C2_CloseContract ==
    \A edge \in CycleEdgeInputs : \A r \in closeOutcomes(cyc, edge) :
        LET fits == ~cyc.is_closed /\ ConnectsTipToLoop(cyc, edge) IN
        /\ r.ret = TRUE <=> (fits /\ NetworkAccepts(cyc, edge))
        /\ r.err # "none" <=> (fits /\ ~NetworkAccepts(cyc, edge))
        /\ r.ret = TRUE =>
             /\ r.cyc.is_closed
             /\ r.cyc.tip_vertex = cyc.loop_vertex
             /\ r.cyc.loop_vertex = cyc.loop_vertex
        /\ r.ret = FALSE => Observable(r.cyc) = Observable(cyc)

\* C2's case: a triangle whose last call, close, returned true
C2_Witness ==
    /\ last.op = "Cycle.close" /\ last.ret = TRUE
    /\ cyc.is_closed /\ Len(cyc.edges) = 3 /\ cyc.tip_vertex = cyc.loop_vertex

\* C2 as the specification states it: close returns true iff the cycle is
\* open and the edge connects the tip to loop_vertex, and otherwise returns
\* false and changes nothing
C2_AsStated ==
    \A edge \in CycleEdgeInputs : \A r \in closeOutcomes(cyc, edge) :
        /\ r.ret = TRUE <=> (~cyc.is_closed /\ ConnectsTipToLoop(cyc, edge))
        /\ r.ret = TRUE => (r.cyc.is_closed /\ r.cyc.tip_vertex = cyc.loop_vertex)
        /\ r.ret = FALSE => (r.err = "none" /\ Observable(r.cyc) = Observable(cyc))

\* C3: closed is terminal: no call made on a closed Cycle (addEdge, close, the
\* inherited addVertex, removeVertex, removeEdge and addEdgeList) changes its
\* vertices, edges, tip_vertex or is_closed, and addEdge and close return false
C3_ClosedIsTerminal ==
    [][cyc.is_closed =>
          /\ Observable(cyc') = Observable(cyc)
          /\ last'.op \in {"Cycle.addEdge", "Cycle.close"} => last'.ret = FALSE]_vars

-----------------------------------------------------------------------------
(* Claims about the algorithms, checked under SpecComplete and SpecAlg *)

\* C4: quadruplets on the complete network of n >= 4 vertices returns exactly
\* n(n-1)(n-2)(n-3)/8 cycles (3 for n = 4), no two of which satisfy isSameAs
C4_QuadrupletsOfComplete ==
    alg.pc = "done" =>
        LET n == Len(net.vertices) IN
        /\ alg.err = "none"
        /\ Len(alg.c4) = (n * (n - 1) * (n - 2) * (n - 3)) \div 8
        /\ \A a, b \in DOMAIN alg.c4 : a # b => ~isSameAs(alg.c4[a], alg.c4[b])
        /\ \A a \in DOMAIN alg.c4 : alg.c4[a].is_closed /\ Len(alg.c4[a].edges) = 4

\* C4's case: quadruplets has returned on the complete network of 5 vertices
C4_Witness ==
    alg.pc = "done" /\ Len(net.vertices) = 5 /\ Len(net.edges) = 10 /\ Len(alg.c4) = 15

\* the sets of three mutually adjacent vertices of n
Triangles(n) ==
    {T \in SUBSET VertexKeys(n) :
        /\ Cardinality(T) = 3
        /\ \A a, b \in T : a # b => hasEdge(n, a, b, FALSE)}

\* C5: on an undirected network triplets returns exactly one triplet for each
\* set of three mutually adjacent vertices; one element for the triangle
C5_OneTripletPerTriangle ==
    (alg.pc = "triplets" /\ ~net.is_directed) =>
        /\ alg.err = "none"
        /\ Len(alg.ret) = Cardinality(Triangles(net))
        /\ \A T \in Triangles(net) : \E i \in DOMAIN alg.ret : Range(alg.ret[i]) = T

\* C6: every vertex of core(k) has degree >= k inside core(k)
C6_CoreDegrees ==
    alg.pc = "core" =>
        /\ alg.err = "none"
        /\ \A i \in DOMAIN alg.ret.vertices :
              degree(alg.ret, alg.ret.vertices[i].id) >= alg.k

-----------------------------------------------------------------------------
(* Claims about the Network container, checked under Spec *)

\* the calls of addEdge the client can make in the current state
AddEdgeCalls == {args \in EdgeArgsSet : args.id = NoId => CanAuto(net, 1)}

\* a call that supplies no id, or an id no edge of the network carries
FreshId(n, args) == args.id = NoId \/ ~edgesHas(n, args.id)

\* C8: after any sequence of mutation calls, the from and the to of every edge
\* are keys of the vertex map (a forced addEdge creates the missing endpoints
\* before it inserts the edge, removeVertex removes the incident edges)
C8_EdgesReferenceVertices ==
    \A i \in DOMAIN net.edges :
        hasVertex(net, net.edges[i].from) /\ hasVertex(net, net.edges[i].to)

\* a forced addEdge has inserted a second edge and created its endpoints
C8_Witness ==
    /\ last.op = "addEdge" /\ last.err = "none"
    /\ Len(net.edges) = 2
    /\ VertexKeys(net) = {1, 2, 3}

\* the edge set is simple: no two edges join the same pair of vertices (the
\* ordered pair when directed) and no edge joins a vertex to itself
SimpleEdges(n) ==
    /\ \A i, j \in DOMAIN n.edges :
          i # j => ~checkEdgeIsSame(n.edges[i], n.edges[j], n.is_directed)
    /\ \A i \in DOMAIN n.edges : n.edges[i].from # n.edges[i].to

\* C7: after any sequence of addEdge, addEdgeList, removeEdge and removeVertex
\* calls the edge set is simple, and an addEdge call with from = to (with no id,
\* or an id that is not in use) raises SelfLoop and inserts nothing
C7_SimpleAndSelfLoopRaises ==
    /\ SimpleEdges(net)
    /\ \A args \in AddEdgeCalls :
          args.from = args.to /\ FreshId(net, args) =>
              \A r \in addEdgeOutcomes(net, args) :
                  r.err = "SELF_LOOP" /\ r.net.edges = net.edges

\* C9: after any sequence of mutation calls edges.size <= edge_limit, and an
\* addEdge call for a new edge (from # to, no edge between them, no id or an id
\* that is not in use) made at edges.size = edge_limit raises EdgeLimitExceeded
\* and leaves the edges and the vertices as they were
C9_EdgeLimitRaises ==
    /\ Len(net.edges) <= net.edge_limit
    /\ \A args \in AddEdgeCalls :
          /\ Len(net.edges) = net.edge_limit
          /\ args.from # args.to
          /\ ~hasEdge(net, args.from, args.to, net.is_directed)
          /\ FreshId(net, args)
          => \A r \in addEdgeOutcomes(net, args) :
                 /\ r.err = "EDGE_LIMIT"
                 /\ r.net.edges = net.edges
                 /\ r.net.vertices = net.vertices

\* C10: after any sequence of public mutation calls vertices.size <=
\* vertex_limit, and addVertex on a network at vertex capacity raises
\* VertexLimitExceeded and adds nothing
C10_VertexLimit ==
    /\ Len(net.vertices) <= net.vertex_limit
    /\ \A id \in Ids :
          Len(net.vertices) = net.vertex_limit =>
              LET r == addVertex(net, id, DefaultWeight)
              IN r.err = "VERTICE_LIMIT" /\ r.net.vertices = net.vertices

\* an edge equivalent to the one the call names is present: the same endpoints,
\* in either order when the network is undirected
HasEquivalent(n, args) == hasEdge(n, args.from, args.to, n.is_directed)

\* C11 (as amended): addEdge for an edge equivalent to one already present
\* never changes the vertices or the edges. It is a silent no-op when the call
\* supplies no id or an id that is not in use and edges.size < edge_limit.
\* With an id in use it raises ExistingEdge; otherwise, at edges.size >=
\* edge_limit, it raises EdgeLimitExceeded or, when newEID finds no free id,
\* does not return.
C11_EquivalentEdgeNoOp ==
    \A args \in AddEdgeCalls :
        HasEquivalent(net, args) =>
            \A r \in addEdgeOutcomes(net, args) :
                /\ r.net.vertices = net.vertices
                /\ r.net.edges = net.edges
                /\ r.err = IF ~FreshId(net, args) THEN "EXISTING_EDGE"
                           ELSE IF Len(net.edges) < net.edge_limit THEN "none"
                           ELSE IF args.id = NoId /\ newEIDHangs(net) THEN "HANG"
                           ELSE "EDGE_LIMIT"

\* C11's case: the one edge of an undirected network carries the first id and
\* the counter has passed it, so the last call, an addEdge that returned, added
\* nothing: it named the edge already present
C11_Witness ==
    /\ last.op = "addEdge" /\ last.err = "none"
    /\ ~net.is_directed
    /\ Len(net.edges) = 1 /\ net.edges[1].id = InitialEid
    /\ net.free_eid = MaxFreeEid

\* C11 as the specification states it: in every reachable state addEdge for an
\* edge equivalent to one already present raises no error and leaves the
\* vertices and the edges unchanged
C11_AsStated ==
    \A args \in AddEdgeCalls :
        HasEquivalent(net, args) =>
            \A r \in addEdgeOutcomes(net, args) :
                r.err = "none" /\ r.net.vertices = net.vertices /\ r.net.edges = net.edges

\* the endpoints of the call that are not keys of the vertex map
MissingEndpoints(n, args) == {id \in {args.from, args.to} : ~hasVertex(n, id)}

\* C12 (as amended): addEdge with do_force = false and an endpoint that is not
\* a vertex never changes the vertices or the edges. When the call supplies no
\* id or an id that is not in use, from # to and edges.size < edge_limit, it
\* raises InexistentVertex carrying the missing endpoint (from when both are
\* missing). The checks that precede the endpoint test raise their own error
\* instead: ExistingEdge for an id in use, SelfLoop for from = to,
\* EdgeLimitExceeded at edges.size >= edge_limit; and the call does not return
\* when newEID finds no free id.
C12_InexistentVertexRaises ==
    \A args \in AddEdgeCalls :
        (~args.do_force /\ MissingEndpoints(net, args) # {}) =>
            \A r \in addEdgeOutcomes(net, args) :
                /\ r.net.vertices = net.vertices
                /\ r.net.edges = net.edges
                /\ r.err = IF ~FreshId(net, args) THEN "EXISTING_EDGE"
                           ELSE IF args.id = NoId /\ newEIDHangs(net) THEN "HANG"
                           ELSE IF args.from = args.to THEN "SELF_LOOP"
                           ELSE IF Len(net.edges) >= net.edge_limit THEN "EDGE_LIMIT"
                           ELSE "INEXISTENT_VERTICE"
                /\ r.err = "INEXISTENT_VERTICE" =>
                      r.vertex = IF ~hasVertex(net, args.from) THEN args.from ELSE args.to

\* C12's case: the last call, an addEdge, raised InexistentVertex on a network
\* that has an edge and a free place for another
C12_Witness ==
    /\ last.op = "addEdge" /\ last.err = "INEXISTENT_VERTICE"
    /\ Len(net.edges) = 1 /\ Len(net.vertices) = 2

\* C12 as the specification states it: every addEdge call with do_force =
\* false and an endpoint that is not a vertex raises InexistentVertex carrying
\* a missing endpoint and leaves the vertices and the edges unchanged
C12_AsStated ==
    \A args \in AddEdgeCalls :
        (~args.do_force /\ MissingEndpoints(net, args) # {}) =>
            \A r \in addEdgeOutcomes(net, args) :
                /\ r.err = "INEXISTENT_VERTICE"
                /\ r.vertex \in MissingEndpoints(net, args)
                /\ r.net.vertices = net.vertices
                /\ r.net.edges = net.edges

\* the edges of n that have id as an endpoint
IncidentEdges(n, id) == {e \in Range(n.edges) : e.from = id \/ e.to = id}

\* C13: removeVertex(id) on an id that is not a key of the vertex map raises
\* InexistentVertex carrying id and changes nothing; on a present id it removes
\* exactly the vertex under id and exactly the edges that have id as an
\* endpoint, and every other vertex and edge stays as it was
C13_RemoveVertexFrame ==
    \A id \in VertexKeys(net) \cup Ids :
        LET r == removeVertex(net, id) IN
        IF ~hasVertex(net, id)
        THEN r.err = "INEXISTENT_VERTICE" /\ r.vertex = id /\ r.net = net
        ELSE /\ r.err = "none"
             /\ Len(r.net.vertices) = Len(net.vertices) - 1
             /\ Range(r.net.vertices) = {v \in Range(net.vertices) : v.key # id}
             /\ Len(r.net.edges) = Len(net.edges) - Cardinality(IncidentEdges(net, id))
             /\ Range(r.net.edges) = Range(net.edges) \ IncidentEdges(net, id)
             /\ <<r.net.is_directed, r.net.vertex_limit, r.net.edge_limit, r.net.free_eid>>
                   = <<net.is_directed, net.vertex_limit, net.edge_limit, net.free_eid>>

\* C13's case: the last call, removeVertex, returned; two vertices and no edge
\* are left of a network whose counter shows two addEdge calls
C13_Witness ==
    /\ last.op = "removeVertex" /\ last.err = "none"
    /\ Len(net.vertices) = 2 /\ Len(net.edges) = 0
    /\ net.free_eid = MaxFreeEid

-----------------------------------------------------------------------------
(* Claims about copy and the derived networks, checked under SpecAlg *)

\* the vertices of n as (key, id, weight) and its edges as (from, to, weight)
Content(n) ==
    <<{<<n.vertices[i].key, n.vertices[i].id, n.vertices[i].weight>> : i \in DOMAIN n.vertices},
      {<<n.edges[i].from, n.edges[i].to, n.edges[i].weight>> : i \in DOMAIN n.edges}>>

\* a and b have the same configuration, vertices and edges
SameNetwork(a, b) ==
    /\ <<a.is_directed, a.vertex_limit, a.edge_limit>> = <<b.is_directed, b.vertex_limit, b.edge_limit>>
    /\ Len(a.vertices) = Len(b.vertices) /\ Len(a.edges) = Len(b.edges)
    /\ Content(a) = Content(b)

\* copy() and core(k) for k <= 0 return a network with the configuration,
\* vertices and edges of the source
CopyHasSameContent ==
    /\ alg.pc = "copy" => (alg.err = "none" /\ SameNetwork(alg.ret, alg.source))
    /\ (alg.pc = "core" /\ alg.k <= 0) => (alg.err = "none" /\ SameNetwork(alg.ret, net))

\* C14: copy() (and core(k) for k <= 0) returns a network with the same
\* configuration, vertices and edges as the source, and a later mutation of
\* one of the two, a change of a vertex's weight included, leaves the other
\* unchanged
C14_CopyIsIndependent ==
    /\ []CopyHasSameContent
    /\ [][(alg.pc = "copy" /\ alg'.pc = "mutated") =>
             (alg'.source = alg.source \/ alg'.ret = alg.ret)]_vars

\* the edges of n as unordered pairs of endpoints
EdgePairs(n) == {{n.edges[i].from, n.edges[i].to} : i \in DOMAIN n.edges}

\* the ids of the vertices of n
VertexIds(n) == {n.vertices[i].id : i \in DOMAIN n.vertices}

\* C15: for every simple undirected network G, complement(complement(G)) has
\* exactly the edge set of G, as unordered pairs of endpoints
C15_ComplementTwice ==
    (alg.pc = "complement2" /\ ~net.is_directed) =>
        (alg.err = "none" /\ EdgePairs(alg.ret) = EdgePairs(net))

-----------------------------------------------------------------------------
(* Claims about isSameAs, checked under SpecPair *)

\* edges e and f are the same under the from/to-or-swapped rule
SameEdge(e, f, is_directed) ==
    \/ e.from = f.from /\ e.to = f.to
    \/ ~is_directed /\ e.from = f.to /\ e.to = f.from

\* every edge of a is the same as some edge of b
EdgesWithin(a, b) ==
    \A i \in DOMAIN a.edges : \E j \in DOMAIN b.edges :
        SameEdge(a.edges[i], b.edges[j], a.is_directed)

\* a and b have the same directedness and equal edge sets
EqualEdgeSets(a, b) ==
    a.is_directed = b.is_directed /\ EdgesWithin(a, b) /\ EdgesWithin(b, a)

\* C17: for any two Cycles a and b, open or closed and of any numbers of
\* edges, a.isSameAs(b) and b.isSameAs(a) are true iff a and b have the same
\* directedness and equal edge sets under the from/to-or-swapped rule
C17_IsSameAsIsEdgeSetEquality ==
    /\ last.op = "a.isSameAs(b)" => (last.ret <=> EqualEdgeSets(cyc, alg.cycle))
    /\ last.op = "b.isSameAs(a)" => (last.ret <=> EqualEdgeSets(alg.cycle, cyc))

-----------------------------------------------------------------------------
(* Claims about ego, clustering and core, checked under SpecAlg *)

\* id together with its neighbours in n
Neighbourhood(n, id) == {id} \cup Range(neighbors(n, id))

\* the edges of n as (from, to), those with both endpoints in S
EdgesAmong(n, S) ==
    {<<n.edges[i].from, n.edges[i].to>> : i \in {j \in DOMAIN n.edges :
                                                  n.edges[j].from \in S /\ n.edges[j].to \in S}}

\* C18: for every vertex id of a network, ego(id) is the induced subgraph on
\* id and its direct neighbours: its vertices are id and neighbors(id), its
\* edges exactly the edges of the network with both endpoints among them
C18_EgoIsInduced ==
    alg.pc = "ego" =>
        /\ alg.err = "none"
        /\ VertexKeys(alg.ret) = Neighbourhood(net, alg.id)
        /\ EdgesAmong(alg.ret, VertexKeys(alg.ret)) = EdgesAmong(net, Neighbourhood(net, alg.id))
        /\ Len(alg.ret.edges) = Cardinality(EdgesAmong(net, Neighbourhood(net, alg.id)))

\* the quotient q is a number between 0 and top
Within(q, top) == q.den > 0 /\ 0 <= q.num /\ q.num <= top * q.den

\* C19: clustering(id) returns 0 for every vertex of degree 0 or 1, and for
\* every vertex its value lies in [0,1] when the network is undirected and in
\* [0,2] when it is directed
C19_ClusteringRange ==
    alg.pc = "clustering" =>
        /\ alg.err = "none"
        /\ degree(net, alg.id) <= 1 => Within(alg.ret, 0)
        /\ Within(alg.ret, IF net.is_directed THEN 2 ELSE 1)

\* C20: for every network and all integers 0 <= j <= k, core(k) has at most
\* as many vertices as core(j)
C20_CoreIsMonotone ==
    (alg.pc = "core" /\ alg.k >= 0) =>
        \A j \in 0..alg.k : \E r \in {core(net, j)} :
            /\ alg.err = "none" /\ r.err = "none"
            /\ Len(alg.ret.vertices) <= Len(r.net.vertices)

\* C20's case: core(2) has returned three of the five vertices of the network
C20_Witness ==
    /\ alg.pc = "core" /\ alg.k = 2
    /\ Len(net.vertices) = 5 /\ Len(alg.ret.vertices) = 3

\* C21: in every reachable state of every Network, directed or undirected,
\* with 0 or 1 vertices included, density is a value in [0,1], and with at
\* least 2 vertices density = edges.size / (|V| * (|V| - 1) / 2)
C21_DensityRange ==
    /\ Within(density(net), 1)
    /\ Len(net.vertices) >= 2 =>
           \E pairs \in {(Len(net.vertices) * (Len(net.vertices) - 1)) \div 2} :
               /\ density(net).den = pairs
               /\ density(net).num = Len(net.edges)

\* the algorithm a step of the client calls, or "none"
CalledAlgorithm(from, to) ==
    IF from.pc = "idle" /\ to.pc \in {"core", "ego", "complement", "clustering",
                                       "averageClustering", "triplets"}
    THEN to.pc
    ELSE IF (from.pc = "idle" /\ to.pc \in {"quadruplets", "done"}) \/ from.pc = "quadruplets"
    THEN "quadruplets"
    ELSE "none"

\* C22: calling core, ego, complement, clustering, averageClustering, triplets
\* or quadruplets leaves the vertex set, edge set, vertex weights and edge
\* weights of the network they are called on unchanged
C22_AlgorithmsArePure ==
    [][CalledAlgorithm(alg, alg') # "none" => SameNetwork(net', net)]_vars

\* core(k) has removed a vertex from the network it returns, which held the
\* Vertex objects of the network it was called on
C22_Witness ==
    /\ alg.pc = "core" /\ alg.err = "none"
    /\ Len(alg.ret.vertices) < Len(net.vertices)
    /\ alg.ret.vertices # <<>>

\* the edges of n that removeEdge({from, to}) is to remove: from -> to, and
\* to -> from as well when n is undirected
EdgesBetween(n, from, to) ==
    {e \in Range(n.edges) :
        \/ e.from = from /\ e.to = to
        \/ ~n.is_directed /\ e.from = to /\ e.to = from}

\* C23: removeEdge({from, to}) removes the edge between from and to (either
\* orientation when the network is undirected, only from -> to when directed),
\* leaves the vertex set and all other edges unchanged, and is a no-op that
\* raises nothing when no edge matches
C23_RemoveEdgeFrame ==
    \A from \in Ids, to \in Ids : \E r \in {removeEdge(net, from, to)} :
        /\ Cardinality(EdgesBetween(net, from, to)) <= 1
        /\ Range(r.edges) = Range(net.edges) \ EdgesBetween(net, from, to)
        /\ Len(r.edges) = Len(net.edges) - Cardinality(EdgesBetween(net, from, to))
        /\ [r EXCEPT !.edges = net.edges] = net
        /\ EdgesBetween(net, from, to) = {} => r = net

\* removeEdge has returned on a directed network that holds vertices and
\* whose edges have all been removed
C23_Witness ==
    /\ last.op = "removeEdge" /\ last.err = "none"
    /\ net.is_directed /\ Len(net.vertices) >= 2
    /\ net.edges = <<>> /\ net.free_eid = MaxFreeEid

\* C24: when a network is at edge capacity (edges.size = edge_limit), every
\* addEdge call terminates with an error and without modifying the network,
\* whatever ids the existing edges carry and whether the id of the new edge is
\* supplied by the caller or generated
C24_AtCapacityAddEdgeFails ==
    Len(net.edges) = net.edge_limit =>
        \A args \in AddEdgeCalls : \A r \in addEdgeOutcomes(net, args) :
            /\ r.err \notin {"none", "HANG"}
            /\ r.net.edges = net.edges
            /\ r.net.vertices = net.vertices

------------------------------------------------------------------------------
(* Claims about the shape of a Cycle, checked under SpecPair *)

\* edge e of cycle c joins a to b (from a to b when c is directed)
Joins(c, e, a, b) ==
    \/ e.from = a /\ e.to = b
    \/ ~c.is_directed /\ e.from = b /\ e.to = a

\* the number of edges of c that have id as an endpoint
IncidentCount(c, id) == Cardinality({i \in DOMAIN c.edges : EdgeHasVertex(c.edges[i], id)})

\* the orders in which the vertices of c can be walked, each vertex once
Walks(c) ==
    {w \in [DOMAIN c.vertices -> VertexIds(c)] :
        \A i, j \in DOMAIN c.vertices : i # j => w[i] # w[j]}

\* the edges of c form a simple path from loop_vertex to tip_vertex: the
\* vertices can be walked from loop_vertex to tip_vertex, each once, an edge
\* joining each vertex to the next, and there is no other edge
SimplePath(c) ==
    /\ Len(c.edges) = Len(c.vertices) - 1
    /\ c.tip_vertex # c.loop_vertex
    /\ Cardinality(VertexIds(c)) = Len(c.vertices)
    /\ \E w \in Walks(c) :
          /\ w[1] = c.loop_vertex /\ w[Len(c.vertices)] = c.tip_vertex
          /\ \A k \in 1..(Len(c.vertices) - 1) :
                \E i \in DOMAIN c.edges : Joins(c, c.edges[i], w[k], w[k + 1])

\* the edges of c form a simple cycle through loop_vertex with at least 3
\* edges: the vertices can be walked from loop_vertex round to it, each once, an
\* edge joining each vertex to the next and the last to the first, there is no
\* other edge, and every vertex has degree 2
SimpleCycle(c) ==
    /\ Len(c.edges) = Len(c.vertices)
    /\ Len(c.edges) >= 3
    /\ Cardinality(VertexIds(c)) = Len(c.vertices)
    /\ \A id \in VertexIds(c) : IncidentCount(c, id) = 2
    /\ \E w \in Walks(c) :
          /\ w[1] = c.loop_vertex
          /\ \A k \in DOMAIN c.vertices :
                \E i \in DOMAIN c.edges :
                    Joins(c, c.edges[i], w[k], w[IF k = Len(c.vertices) THEN 1 ELSE k + 1])

\* C25: in every state a Cycle can reach through its constructor, addEdge
\* and close, its edges form a simple path from loop_vertex to tip_vertex
\* while it is open (edges.size = vertices.size - 1, tip_vertex differs from
\* loop_vertex), and a simple cycle through loop_vertex with at least 3 edges
\* once it is closed (edges.size = vertices.size, every vertex of degree 2)
C25_CycleShape ==
    \A side \in PairSides : \E c \in {PairCycle(side)} :
        IF c.is_closed THEN SimpleCycle(c) ELSE SimplePath(c)

------------------------------------------------------------------------------
(* Claims about directed networks *)

\* the calls addEdge({from: b, to: a}) of the current state for which a -> b
\* is present and b -> a is not, made below the edge limit with no id or an id
\* that is not in use
ReverseEdgeCalls ==
    {args \in AddEdgeCalls :
        /\ hasEdge(net, args.to, args.from, TRUE)
        /\ ~hasEdge(net, args.from, args.to, TRUE)
        /\ FreshId(net, args)
        /\ Len(net.edges) < net.edge_limit}

\* C26: in a directed network (a,b) and (b,a) are different edges: when
\* a -> b is present and b -> a is not, addEdge({from: b, to: a}) inserts a
\* new edge, after which both orientations are present
C26_DirectedReverseEdge ==
    net.is_directed =>
        \A args \in ReverseEdgeCalls : \A r \in addEdgeOutcomes(net, args) :
            /\ r.err = "none"
            /\ Len(r.net.edges) = Len(net.edges) + 1
            /\ hasEdge(r.net, args.from, args.to, TRUE)
            /\ hasEdge(r.net, args.to, args.from, TRUE)

\* C27: for a directed network G and every ordered pair (a,b) of distinct
\* vertices of G, complement() contains the edge a -> b iff G contains no edge
\* a -> b, each orientation being decided independently of the opposite one
C27_DirectedComplement ==
    (alg.pc = "complement" /\ net.is_directed) =>
        /\ alg.err = "none"
        /\ \A a, b \in VertexIds(net) :
              a # b => (hasEdge(alg.ret, a, b, TRUE) <=> ~hasEdge(net, a, b, TRUE))

------------------------------------------------------------------------------
(* Claim about the standalone Cycle, checked under SpecLegacy *)

\* C28: in the standalone Cycle class of src/cycle.ts, every successful
\* addEdge on an undirected cycle sets tip_vertex to the newly added,
\* previously unvisited endpoint of the edge, whichever endpoint order the
\* edge is given in
C28_LegacyTip ==
    ~cyc.is_directed =>
        \A edge \in LegacyEdgeInputs : \A r \in legacyAddEdgeOutcomes(cyc, edge) :
            (r.err = "none" /\ r.ret) =>
                /\ r.cyc.tip_vertex \in {edge.from, edge.to}
                /\ ~hasVertex(cyc, r.cyc.tip_vertex)
====
